---- MODULE Spec2Model ----
(***************************************************************************)
(* Model of the purchase reservation -> payment -> settlement protocol and *)
(* of the organizer revenue / withdrawal protocol of cafa-tickets-backend. *)
(*                                                                         *)
(* The database tables are the variables.  Every request handler runs in   *)
(* one of a small pool of workers; a handler is cut into steps where it    *)
(* waits for the payment gateway or, for the handlers that save several    *)
(* rows one after the other outside any transaction, between those saves.  *)
(* A model instance a handler has loaded is a snapshot (held in loc): a    *)
(* later save() writes the snapshot's fields back, as the ORM does.        *)
(* Amounts are integers in pesewas (1/100 GHS); a product with             *)
(* Decimal('0.05') is kept exact in 1/10000 GHS until a DecimalField with  *)
(* decimal_places=2 stores it.                                             *)
(***************************************************************************)
EXTENDS Integers, Sequences, FiniteSets, TLC

\* ------------------------------------------------------------------ bounds
NumWorkers == 2        \* request handlers that may be in flight at once
MaxPurchases == 2      \* Purchase rows ever created
MaxQty == 2            \* largest quantity a buyer asks for
MaxTickets == 4        \* Ticket rows ever created
MaxRevenue == 3        \* OrganizerRevenue rows ever created
MaxSold == 4           \* largest tickets_sold the model follows
TickMinutes == 11      \* granularity of the clock
MaxNow == 22           \* last instant of the clock
MaxWithdrawals == 2    \* WithdrawalRequest rows ever created
MaxCheckIns == 3       \* check-ins followed per ticket
MaxHours == 2          \* hours the clock may jump ahead

\* ------------------------------------------------------- program constants
TTQuantity == 2            \* TicketType.quantity (capacity) of the modelled type
MinPurchase == 1           \* TicketType.min_purchase default
MaxPurchase == 10          \* TicketType.max_purchase default
ReservationMinutes == 10   \* Purchase.save: reservation_expires_at
HoldingDays == 7           \* OrganizerRevenue.save: available_at
CommissionPercent == 5     \* platform_commission_rate = Decimal('0.05')
MinWithdrawal == 1000      \* CreateWithdrawalRequestView: Decimal('10.00')
MinWithdrawalViewSet == 5000   \* WithdrawalRequestSerializer: Decimal('50.00')
FeeThreshold == 500000     \* transfers of GHS 5,000 and above carry a fee
FlatFee == 1000            \* Decimal('10.00')
MAX_ATTEMPTS == 5       \* verify_bank_account: resolutions tried per profile
max_retries == 5        \* PaymentProfileListCreateView.create: calls of verify_bank_account
RetryWindowMinutes == 60   \* RetryVerificationView: the rate limit looks one hour back
RetryLimit == 3            \* RetryVerificationView: attempts allowed within that hour

Workers == 1..NumWorkers
Prices == {1010, 1030, 10000}   \* TicketType.price in pesewas (>= 10.00 GHS)
MinutesPerDay == 24 * 60
\* requested withdrawal amounts, in pesewas
Amounts == {500, 9500, 15000, 20000, 300000, 500000, 600000}

VARIABLES
    now,            \* timezone.now(), in minutes
    check_in_policy,\* Event.check_in_policy of the modelled event
    ticket_type,    \* the TicketType row: [price, quantity, tickets_sold]
    purchases,      \* Purchase rows, by creation order
    payments,       \* payments[p]: status of the Payment row of purchase p, "none" if no row
    tickets,        \* Ticket rows
    revenue,        \* OrganizerRevenue rows
    gateway,        \* gateway[p]: what Paystack knows of purchase p's transaction
    observed,       \* purchases read while unpaid after reservation_expires_at
    withdrawals,    \* WithdrawalRequest rows, by creation order
    profile,        \* the organizer's default PaymentProfile
    pc,             \* pc[w]: where worker w is in its handler
    loc             \* loc[w]: the handler's local variables (model snapshots)

vars == <<now, check_in_policy, ticket_type, purchases, payments, tickets, revenue, gateway,
          observed, withdrawals, profile, pc, loc>>

\* The tables of the withdrawal side, and the tables only the purchase side writes.
wvars == <<withdrawals, profile>>
pvars == <<now, check_in_policy, ticket_type, purchases, payments, tickets, gateway, observed>>

\* ----------------------------------------------------------------- helpers
NoLoc == [p |-> 0, q |-> 0, sold |-> 0, ts |-> {}, seen |-> "none",
          amount |-> 0, wd |-> 0, items |-> {}, amount_reserved |-> 0, retry_count |-> 0]

\* PaymentProfile.failure_reason when blank, and the profile as it is before its
\* row exists (last_verification_attempt -1: null); resolve_calls counts the
\* GET /bank/resolve requests made for it.
NoReason == [kind |-> "blank", attempt |-> 0, message |-> "none"]

NoProfile ==
    [status |-> "none", recipient |-> FALSE, method |-> "none",
     verification_attempts |-> 0, last_verification_attempt |-> -1,
     failure_reason |-> NoReason, resolve_calls |-> 0]

\* A bank profile that was verified at its first resolution.
VerifiedProfile ==
    [NoProfile EXCEPT !.status = "verified", !.method = "bank_transfer",
                      !.verification_attempts = 1, !.last_verification_attempt = 0,
                      !.resolve_calls = 1]

RECURSIVE SumOver(_, _)
SumOver(f, S) ==
    IF S = {} THEN 0
    ELSE LET x == CHOOSE y \in S : TRUE IN f[x] + SumOver(f, S \ {x})

\* Rounding to 2 places with ties away from zero (ROUND_HALF_UP).
RoundHalfUp(n) == (n + 50) \div 100

\* Decimal.quantize to 2 places as Django's DecimalField does on save
\* (the decimal context's ROUND_HALF_EVEN); n is in 1/10000 GHS, result in pesewas.
RoundHalfEven(n) ==
    LET k == n \div 100
        r == n % 100
    IN  IF 2 * r < 100 THEN k
        ELSE IF 2 * r > 100 THEN k + 1
        ELSE IF k % 2 = 0 THEN k ELSE k + 1

\* TicketType.tickets_remaining
tickets_remaining(tt) == tt.quantity - tt.tickets_sold

\* TicketType.is_available (no availability window is set on the modelled type)
is_available(tt) == tickets_remaining(tt) > 0

\* Indices of the rows of a table that satisfy a filter
TicketsOf(p) == {t \in 1..Len(tickets) : tickets[t].purchase = p}
RevenueOf(p) == {r \in 1..Len(revenue) : revenue[r].purchase = p}

\* A column without the CHECK takes any count.
SaveSoldUnchecked(n) == TRUE

\* PositiveIntegerField: the column carries CHECK (tickets_sold >= 0), so a save
\* of a negative count raises IntegrityError and writes nothing.
SaveSoldOk(n) == n >= 0

Finish(w) ==
    /\ pc' = [pc EXCEPT ![w] = "idle"]
    /\ loc' = [loc EXCEPT ![w] = NoLoc]

\* ---------------------------------------------------------------- initial
InitWith(policies, prices) ==
    /\ now = 0
    /\ check_in_policy \in policies
    /\ \E price \in prices :
         ticket_type = [price |-> price, quantity |-> TTQuantity, tickets_sold |-> 0]
    /\ purchases = <<>>
    /\ payments = <<>>
    /\ tickets = <<>>
    /\ revenue = <<>>
    /\ gateway = <<>>
    /\ observed = {}
    /\ withdrawals = <<>>
    /\ profile = VerifiedProfile
    /\ pc = [w \in Workers |-> "idle"]
    /\ loc = [w \in Workers |-> NoLoc]

\* One event (check_in_policy at its default) with one ticket type on sale at
\* 100.00 GHS, nothing sold, no request in flight.
Init == InitWith({"single_entry"}, {10000})

\* The same at each of the modelled prices.
InitPrices == InitWith({"single_entry"}, Prices)

\* A new Purchase row; Purchase.save sets reservation_expires_at on first save.
NewPurchase(q, st) ==
    [status |-> st, quantity |-> q, subtotal |-> ticket_type.price * q,
     reservation_expires_at |-> now + ReservationMinutes]

\* ------------------------------------------------ initiate_payment (view)
\* Load the ticket type and validate the request; the instance stays in memory.
InitiatePaymentValidate(w, q) ==
    /\ pc[w] = "idle"
    /\ Len(purchases) < MaxPurchases
    /\ IF /\ is_available(ticket_type)
          /\ tickets_remaining(ticket_type) >= q
          /\ q >= MinPurchase
          /\ q <= MaxPurchase
       THEN /\ pc' = [pc EXCEPT ![w] = "ip_txn"]
            /\ loc' = [loc EXCEPT ![w] = [NoLoc EXCEPT !.q = q,
                                                       !.sold = ticket_type.tickets_sold]]
       ELSE UNCHANGED <<pc, loc>>
    /\ UNCHANGED <<now, check_in_policy, ticket_type, purchases, payments, tickets, revenue,
                   gateway, observed>>
    /\ UNCHANGED wvars

\* The transaction.atomic() block: reserve, create the purchase, call the gateway,
\* then create the payment or undo the reservation and delete the purchase.
InitiatePaymentTxn(w, ok) ==
    /\ pc[w] = "ip_txn"
    /\ IF ok
       THEN /\ ticket_type' = [ticket_type EXCEPT !.tickets_sold = loc[w].sold + loc[w].q]
            /\ purchases' = Append(purchases, NewPurchase(loc[w].q, "pending"))
            /\ payments' = Append(payments, "pending")
            /\ gateway' = Append(gateway, "initialized")
       ELSE /\ ticket_type' = [ticket_type EXCEPT !.tickets_sold = loc[w].sold]
            /\ UNCHANGED <<purchases, payments, gateway>>
    /\ Finish(w)
    /\ UNCHANGED <<now, check_in_policy, tickets, revenue, observed>>
    /\ UNCHANGED wvars

\* ------------------------------------------------ InitiatePurchaseView.post
\* PurchaseInitiateSerializer.validate, then the Purchase and its Tickets are
\* created in status reserved.  tickets_sold is not touched here.
InitiatePurchaseReserve(w, q) ==
    /\ pc[w] = "idle"
    /\ Len(purchases) < MaxPurchases
    /\ Len(tickets) + q <= MaxTickets
    /\ IF /\ is_available(ticket_type)
          /\ q >= MinPurchase
          /\ q <= MaxPurchase
          /\ q <= tickets_remaining(ticket_type)
       THEN /\ purchases' = Append(purchases, NewPurchase(q, "reserved"))
            /\ payments' = Append(payments, "none")
            /\ gateway' = Append(gateway, "none")
            /\ tickets' = tickets \o [i \in 1..q |->
                    [purchase |-> Len(purchases) + 1, status |-> "reserved",
                     is_checked_in |-> FALSE, checked_in_at |-> 0, check_ins |-> 0]]
            /\ pc' = [pc EXCEPT ![w] = "pv_gateway"]
            /\ loc' = [loc EXCEPT ![w] = [NoLoc EXCEPT
                                !.p = Len(purchases) + 1, !.q = q,
                                !.ts = (Len(tickets) + 1)..(Len(tickets) + q)]]
       ELSE UNCHANGED <<purchases, payments, gateway, tickets, pc, loc>>
    /\ UNCHANGED <<now, check_in_policy, ticket_type, revenue, observed>>
    /\ UNCHANGED wvars

\* _initialize_paystack_payment has answered: on failure the purchase is saved as
\* failed and the tickets of the in-memory list as expired; on success the Payment
\* is created and the purchase saved as pending.
InitiatePurchaseGateway(w, ok) ==
    /\ pc[w] = "pv_gateway"
    /\ LET p == loc[w].p IN
       IF ok
       THEN /\ payments' = [payments EXCEPT ![p] = "pending"]
            /\ gateway' = [gateway EXCEPT ![p] = "initialized"]
            /\ purchases' = [purchases EXCEPT ![p].status = "pending"]
            /\ UNCHANGED tickets
       ELSE /\ purchases' = [purchases EXCEPT ![p].status = "failed"]
            /\ tickets' = [t \in 1..Len(tickets) |->
                    IF t \in loc[w].ts
                    THEN [purchase |-> p, status |-> "expired", is_checked_in |-> FALSE, checked_in_at |-> 0, check_ins |-> 0]
                    ELSE tickets[t]]
            /\ UNCHANGED <<payments, gateway>>
    /\ Finish(w)
    /\ UNCHANGED <<now, check_in_policy, ticket_type, revenue, observed>>
    /\ UNCHANGED wvars

\* The gateway call failed and the rollback itself fails part-way: the purchase is
\* saved as failed, then a ticket.save() raises.  No transaction is open, so the
\* purchase stays failed and the tickets reserved.
InitiatePurchaseRollbackAborts(w) ==
    /\ pc[w] = "pv_gateway"
    /\ purchases' = [purchases EXCEPT ![loc[w].p].status = "failed"]
    /\ Finish(w)
    /\ UNCHANGED <<now, check_in_policy, ticket_type, payments, tickets, revenue, gateway,
                   observed>>
    /\ UNCHANGED wvars

\* The buyer pays on the gateway's page of an initialized transaction.
CustomerPays(p) ==
    /\ p \in 1..Len(purchases)
    /\ gateway[p] = "initialized"
    /\ gateway' = [gateway EXCEPT ![p] = "paid"]
    /\ UNCHANGED <<now, check_in_policy, ticket_type, purchases, payments, tickets, revenue,
                   observed, pc, loc>>
    /\ UNCHANGED wvars

\* ------------------------------------------------------- revenue records
\* subtotal * Decimal('0.05'), stored in a DecimalField(decimal_places=2)
PlatformFee(subtotal) == RoundHalfEven(subtotal * CommissionPercent)

\* subtotal - platform_fee (the unrounded fee), stored with 2 decimal places
OrganizerEarnings(subtotal) == RoundHalfEven(subtotal * 100 - subtotal * CommissionPercent)

\* OrganizerRevenue.save: available_at = now + 7 days when not set
RevenueRow(p, subtotal) ==
    [purchase |-> p, ticket_sales_amount |-> subtotal,
     platform_fee |-> PlatformFee(subtotal),
     organizer_earnings |-> OrganizerEarnings(subtotal),
     status |-> "pending", available_at |-> now + HoldingDays * MinutesPerDay,
     is_withdrawn |-> FALSE, withdrawal |-> 0]

\* Purchase._create_revenue_record
create_revenue_record(p) == RevenueRow(p, purchases[p].subtotal)

\* Purchase.save: the rows it adds to OrganizerRevenue when the status it is given
\* is completed and the stored status is not (is_new_completion).
PurchaseSaveRevenue(p, st) ==
    IF purchases[p].status # "completed" /\ st = "completed"
    THEN <<create_revenue_record(p)>>
    ELSE <<>>

\* ----------------------------- PaymentWebhookView._handle_successful_payment
\* charge.success for purchase p: load the purchase and its payment, save the
\* payment as completed.
WebhookPayment(w, p) ==
    /\ pc[w] = "idle"
    /\ p \in 1..Len(purchases)
    /\ gateway[p] = "paid"
    /\ payments' = [payments EXCEPT ![p] = "completed"]
    /\ pc' = [pc EXCEPT ![w] = "wh_purchase"]
    /\ loc' = [loc EXCEPT ![w] = [NoLoc EXCEPT !.p = p, !.q = purchases[p].quantity,
                                                !.seen = payments[p]]]
    /\ UNCHANGED <<now, check_in_policy, ticket_type, purchases, tickets, revenue, gateway,
                   observed>>
    /\ UNCHANGED wvars

\* purchase.status = 'completed'; purchase.save()
WebhookPurchase(w) ==
    /\ pc[w] = "wh_purchase"
    /\ LET p == loc[w].p
           rows == PurchaseSaveRevenue(p, "completed") IN
       /\ Len(revenue) + Len(rows) <= MaxRevenue
       /\ revenue' = revenue \o rows
       /\ purchases' = [purchases EXCEPT ![p].status = "completed"]
    /\ pc' = [pc EXCEPT ![w] = "wh_tickets"]
    /\ UNCHANGED <<now, check_in_policy, ticket_type, payments, tickets, gateway, observed, loc>>
    /\ UNCHANGED wvars

\* for ticket in purchase.tickets.all(): ticket.status = 'paid'; ticket.save()
WebhookTickets(w) ==
    /\ pc[w] = "wh_tickets"
    /\ tickets' = [t \in 1..Len(tickets) |->
            IF tickets[t].purchase = loc[w].p
            THEN [tickets[t] EXCEPT !.status = "paid"]
            ELSE tickets[t]]
    /\ pc' = [pc EXCEPT ![w] = "wh_ticket_type"]
    /\ UNCHANGED <<now, check_in_policy, ticket_type, purchases, payments, revenue, gateway,
                   observed, loc>>
    /\ UNCHANGED wvars

\* purchase.ticket_type.tickets_sold += purchase.quantity; save()
WebhookTicketType(w) ==
    /\ pc[w] = "wh_ticket_type"
    /\ ticket_type.tickets_sold + loc[w].q <= MaxSold
    /\ ticket_type' = [ticket_type EXCEPT !.tickets_sold = @ + loc[w].q]
    /\ Finish(w)
    /\ UNCHANGED <<now, check_in_policy, purchases, payments, tickets, revenue, gateway,
                   observed>>
    /\ UNCHANGED wvars

\* An exception other than Purchase.DoesNotExist (QR code generation, a database
\* error) leaves the handler where it is: no transaction is open, so the saves
\* already made stay.
WebhookAborts(w) ==
    /\ pc[w] \in {"wh_purchase", "wh_tickets", "wh_ticket_type"}
    /\ Finish(w)
    /\ UNCHANGED <<now, check_in_policy, ticket_type, purchases, payments, tickets, revenue,
                   gateway, observed>>
    /\ UNCHANGED wvars

\* ---------------------------------------------------------- verify_payment
\* Load the payment with its purchase and ticket type (select_related).  A payment
\* already completed returns the existing tickets; otherwise the gateway is asked.
VerifyPaymentRead(w, p) ==
    /\ pc[w] = "idle"
    /\ p \in 1..Len(purchases)
    /\ payments[p] # "none"
    /\ IF payments[p] = "completed"
       THEN UNCHANGED <<pc, loc>>
       ELSE /\ pc' = [pc EXCEPT ![w] = "vp_gateway"]
            /\ loc' = [loc EXCEPT ![w] = [NoLoc EXCEPT
                                !.p = p, !.q = purchases[p].quantity,
                                !.sold = ticket_type.tickets_sold, !.seen = payments[p]]]
    /\ UNCHANGED <<now, check_in_policy, ticket_type, purchases, payments, tickets, revenue,
                   gateway, observed>>
    /\ UNCHANGED wvars

\* verify_paystack_payment did not succeed ("error": no answer or not a 200) or the
\* transaction's status is not success ("not_success"): payment and purchase are
\* saved as failed and the snapshot of the ticket type is saved with the
\* reservation taken off.
VerifyPaymentFailed(w, res) ==
    /\ pc[w] = "vp_gateway"
    /\ res \in {"error", "not_success"}
    /\ res = "not_success" => gateway[loc[w].p] # "paid"
    /\ LET p == loc[w].p IN
       /\ payments' = [payments EXCEPT ![p] = "failed"]
       /\ purchases' = [purchases EXCEPT ![p].status = "failed"]
       /\ IF SaveSoldOk(loc[w].sold - loc[w].q)
          THEN ticket_type' = [ticket_type EXCEPT !.tickets_sold = loc[w].sold - loc[w].q]
          ELSE UNCHANGED ticket_type
    /\ Finish(w)
    /\ UNCHANGED <<now, check_in_policy, tickets, revenue, gateway, observed>>
    /\ UNCHANGED wvars

\* The gateway reports success: in one transaction the payment and the purchase
\* are saved as completed, quantity tickets are created as paid and a revenue
\* record is created (after the one Purchase.save created).
VerifyPaymentSuccess(w) ==
    /\ pc[w] = "vp_gateway"
    /\ gateway[loc[w].p] = "paid"
    /\ LET p == loc[w].p
           rows == PurchaseSaveRevenue(p, "completed") \o <<RevenueRow(p, purchases[p].subtotal)>>
       IN
       /\ Len(revenue) + Len(rows) <= MaxRevenue
       /\ Len(tickets) + loc[w].q <= MaxTickets
       /\ payments' = [payments EXCEPT ![p] = "completed"]
       /\ purchases' = [purchases EXCEPT ![p].status = "completed"]
       /\ tickets' = tickets \o [i \in 1..loc[w].q |->
                [purchase |-> p, status |-> "paid", is_checked_in |-> FALSE, checked_in_at |-> 0, check_ins |-> 0]]
       /\ revenue' = revenue \o rows
    /\ Finish(w)
    /\ UNCHANGED <<now, check_in_policy, ticket_type, gateway, observed>>
    /\ UNCHANGED wvars

\* ------------------------------------------------- CancelPurchaseView.post
CancelPurchaseRead(w, p) ==
    /\ pc[w] = "idle"
    /\ p \in 1..Len(purchases)
    /\ IF purchases[p].status \in {"reserved", "pending"}
       THEN /\ pc' = [pc EXCEPT ![w] = "cp_write"]
            /\ loc' = [loc EXCEPT ![w] = [NoLoc EXCEPT !.p = p, !.q = purchases[p].quantity,
                                                        !.seen = payments[p]]]
       ELSE UNCHANGED <<pc, loc>>
    /\ UNCHANGED <<now, check_in_policy, ticket_type, purchases, payments, tickets, revenue,
                   gateway, observed>>
    /\ UNCHANGED wvars

\* The purchase is saved as expired, its reserved tickets as expired, and the
\* ticket type's count is lowered by the number of tickets released.
CancelPurchaseWrite(w) ==
    /\ pc[w] = "cp_write"
    /\ LET p == loc[w].p
           released == {t \in TicketsOf(p) : tickets[t].status \in {"reserved", "pending"}}
           tickets_released == Cardinality(released)
           lowered == ticket_type.tickets_sold - tickets_released
       IN
       /\ purchases' = [purchases EXCEPT ![p].status = "expired"]
       /\ tickets' = [t \in 1..Len(tickets) |->
                IF t \in released THEN [tickets[t] EXCEPT !.status = "expired"]
                ELSE tickets[t]]
       /\ IF tickets_released > 0
          THEN ticket_type' = [ticket_type EXCEPT
                                  !.tickets_sold = IF lowered > 0 THEN lowered ELSE 0]
          ELSE UNCHANGED ticket_type
    /\ Finish(w)
    /\ UNCHANGED <<now, check_in_policy, payments, revenue, gateway, observed>>
    /\ UNCHANGED wvars

\* -------------------------------------------------- CheckInTicketView.post
\* check_ins counts the responses with success = True returned for the ticket.
CheckedIn(t) ==
    [tickets EXCEPT ![t].is_checked_in = TRUE, ![t].checked_in_at = now,
                    ![t].status = "used", ![t].check_ins = @ + 1]

\* The whole request, with no other check-in in flight.
CheckInTicket(w, t) ==
    /\ pc[w] = "idle"
    /\ t \in 1..Len(tickets)
    /\ tickets[t].check_ins < MaxCheckIns
    /\ IF tickets[t].is_checked_in /\ check_in_policy = "single_entry"
       THEN UNCHANGED tickets
       ELSE tickets' = CheckedIn(t)
    /\ UNCHANGED <<now, check_in_policy, ticket_type, purchases, payments, revenue, gateway,
                   observed, pc, loc>>
    /\ UNCHANGED wvars

\* The same request in the two steps other requests can come between: the ticket
\* is fetched and tested (a rejection answers at once), then it is saved.
CheckInTicketGet(w, t) ==
    /\ pc[w] = "idle"
    /\ t \in 1..Len(tickets)
    /\ tickets[t].check_ins < MaxCheckIns
    /\ IF tickets[t].is_checked_in /\ check_in_policy = "single_entry"
       THEN UNCHANGED <<pc, loc>>
       ELSE /\ pc' = [pc EXCEPT ![w] = "ci_save"]
            /\ loc' = [loc EXCEPT ![w].ts = {t}]
    /\ UNCHANGED <<pvars, revenue>>
    /\ UNCHANGED wvars

CheckInTicketSave(w) ==
    /\ pc[w] = "ci_save"
    /\ \E t \in loc[w].ts : tickets' = CheckedIn(t)
    /\ Finish(w)
    /\ UNCHANGED <<now, check_in_policy, ticket_type, purchases, payments, revenue, gateway,
                   observed>>
    /\ UNCHANGED wvars

\* --------------------------------------------------- PaymentStatusView.get
\* The buyer polls the payment of a purchase that still holds its reservation after
\* reservation_expires_at: the view reads the rows and returns them, nothing is
\* written.  observed remembers that the purchase was looked at past its expiry.
PaymentStatusGet(p) ==
    /\ p \in 1..Len(purchases)
    /\ payments[p] # "none"
    /\ now > purchases[p].reservation_expires_at
    /\ purchases[p].status \in {"reserved", "pending"}
    /\ observed' = observed \cup {p}
    /\ UNCHANGED <<now, check_in_policy, ticket_type, purchases, payments, tickets, revenue,
                   gateway, pc, loc>>
    /\ UNCHANGED wvars

\* timezone.now() moves on.
Tick ==
    /\ now + TickMinutes <= MaxNow
    /\ now' = now + TickMinutes
    /\ UNCHANGED <<check_in_policy, ticket_type, purchases, payments, tickets, revenue,
                   gateway, observed, pc, loc>>
    /\ UNCHANGED wvars

\* ------------------------------------------- OrganizerRevenueView.get
\* A sweep that does not look at available_at.
RevenueSweepAll ==
    /\ revenue' = [r \in 1..Len(revenue) |->
            IF revenue[r].status = "pending"
            THEN [revenue[r] EXCEPT !.status = "available"]
            ELSE revenue[r]]
    /\ UNCHANGED <<pvars, wvars, pc, loc>>

\* The dashboard's sweep: pending revenue past its holding period becomes available.
RevenueSweep ==
    /\ revenue' = [r \in 1..Len(revenue) |->
            IF revenue[r].status = "pending" /\ revenue[r].available_at <= now
            THEN [revenue[r] EXCEPT !.status = "available"]
            ELSE revenue[r]]
    /\ UNCHANGED <<pvars, wvars, pc, loc>>

\* ------------------------------------------------ withdrawal: shared reads
Revenues == 1..Len(revenue)
Withdrawals == 1..Len(withdrawals)
Earnings == [r \in Revenues |-> revenue[r].organizer_earnings]

\* filter(status='available', is_withdrawn=False).aggregate(Sum('organizer_earnings'))
AvailableBalance ==
    SumOver(Earnings, {r \in Revenues : revenue[r].status = "available"
                                         /\ ~revenue[r].is_withdrawn})

\* WithdrawalRequest.objects.filter(status__in=statuses)
WithStatus(statuses) == {wd \in Withdrawals : withdrawals[wd].status \in statuses}

\* filter(status='available', is_withdrawn=False, withdrawal__isnull=True)
ReservableItems ==
    {r \in Revenues : /\ revenue[r].status = "available"
                      /\ ~revenue[r].is_withdrawn
                      /\ revenue[r].withdrawal = 0}

\* order_by('created_at'): the oldest row of a set
Oldest(S) == CHOOSE r \in S : \A x \in S : r <= x

\* Rows about to be inserted by handlers that passed their checks
Inserting == {w \in Workers : pc[w] \in {"cw_insert", "vs_insert"}}

\* No fee at any amount.
NoTransferFee(requested_amount) == 0

\* WithdrawalRequest.calculate_transfer_fee
calculate_transfer_fee(requested_amount) ==
    IF requested_amount >= FeeThreshold THEN FlatFee ELSE 0

\* The fee as CreateWithdrawalRequestView.post works it out itself
ViewTransferFee(requested_amount) ==
    IF requested_amount >= FeeThreshold THEN FlatFee ELSE 0

\* A new pending WithdrawalRequest; WithdrawalRequest.save sets final_amount.
InsertWithdrawal(w, transfer_fee, next) ==
    /\ withdrawals' = Append(withdrawals,
            [status |-> "pending", requested_amount |-> loc[w].amount,
             transfer_fee |-> transfer_fee,
             final_amount |-> loc[w].amount - transfer_fee,
             rejection_reason |-> "", transfer |-> "none"])
    /\ pc' = [pc EXCEPT ![w] = next]
    /\ loc' = [loc EXCEPT ![w].wd = Len(withdrawals) + 1]
    /\ UNCHANGED <<pvars, revenue, profile>>

\* The queryset of _reserve_revenue is evaluated when its loop starts.
FetchReservable(w, loop, done) ==
    /\ loc' = [loc EXCEPT ![w].items = ReservableItems]
    /\ pc' = [pc EXCEPT ![w] = IF ReservableItems = {} THEN done ELSE loop]
    /\ UNCHANGED <<pvars, wvars, revenue>>

\* One turn of the loop: the oldest fetched item is saved as on_hold and linked to
\* the withdrawal (the whole row is written from the instance that was fetched);
\* the loop ends when the amount is covered or the items are used up.
ReserveItem(w, done) ==
    LET r == Oldest(loc[w].items)
        rest == loc[w].items \ {r}
        total == loc[w].amount_reserved + revenue[r].organizer_earnings
    IN  /\ revenue' = [revenue EXCEPT ![r].withdrawal = loc[w].wd,
                                      ![r].status = "on_hold",
                                      ![r].is_withdrawn = FALSE]
        /\ loc' = [loc EXCEPT ![w].items = rest, ![w].amount_reserved = total]
        /\ IF rest = {} \/ total >= loc[w].amount
           THEN pc' = [pc EXCEPT ![w] = done]
           ELSE UNCHANGED pc
        /\ UNCHANGED <<pvars, wvars>>

\* --------------------------------------- CreateWithdrawalRequestView.post
\* Amount, balance, pending-withdrawal and payment-profile checks.
CreateWithdrawalValidate(w, amount) ==
    /\ pc[w] = "idle"
    /\ Len(withdrawals) + Cardinality(Inserting) < MaxWithdrawals
    /\ IF /\ amount > 0
          /\ amount >= MinWithdrawal
          /\ amount <= AvailableBalance
          /\ WithStatus({"pending", "processing"}) = {}
          /\ profile.status = "verified"
       THEN /\ pc' = [pc EXCEPT ![w] = "cw_insert"]
            /\ loc' = [loc EXCEPT ![w] = [NoLoc EXCEPT !.amount = amount]]
       ELSE UNCHANGED <<pc, loc>>
    /\ UNCHANGED <<pvars, wvars, revenue>>

CreateWithdrawalInsert(w) ==
    /\ pc[w] = "cw_insert"
    /\ InsertWithdrawal(w, ViewTransferFee(loc[w].amount), "cw_fetch")

CreateWithdrawalFetch(w) ==
    /\ pc[w] = "cw_fetch"
    /\ FetchReservable(w, "cw_reserve", "cw_transfer")

CreateWithdrawalReserve(w) ==
    /\ pc[w] = "cw_reserve"
    /\ ReserveItem(w, "cw_transfer")

\* PaystackTransferService.initiate_transfer: the recipient is created if the
\* profile has none ("no_recipient": that call fails and nothing is saved), then
\* the transfer is requested and the withdrawal instance is saved as processing
\* ("ok") or failed ("failed").
InitiateTransfer(w, outcome) ==
    /\ pc[w] = "cw_transfer"
    /\ outcome \in {"no_recipient", "ok", "failed"}
    /\ LET wd == loc[w].wd IN
       IF outcome = "no_recipient"
       THEN /\ ~profile.recipient
            /\ UNCHANGED <<withdrawals, profile>>
       ELSE /\ profile' = [profile EXCEPT !.recipient = TRUE]
            /\ withdrawals' = [withdrawals EXCEPT
                    ![wd].status = IF outcome = "ok" THEN "processing" ELSE "failed",
                    ![wd].rejection_reason = IF outcome = "ok" THEN @ ELSE "error_msg",
                    ![wd].final_amount = withdrawals[wd].requested_amount
                                            - withdrawals[wd].transfer_fee,
                    ![wd].transfer = IF outcome = "ok" THEN "sent" ELSE @]
    /\ Finish(w)
    /\ UNCHANGED <<pvars, revenue>>

\* ----------------------------------------- WithdrawalRequestViewSet.create
\* WithdrawalRequestSerializer's field validators, then the pending check.
ViewSetValidate(w, amount) ==
    /\ pc[w] = "idle"
    /\ Len(withdrawals) + Cardinality(Inserting) < MaxWithdrawals
    /\ IF /\ profile.status = "verified"
          /\ amount > 0
          /\ amount <= AvailableBalance
          /\ amount >= MinWithdrawalViewSet
          /\ WithStatus({"pending", "approved", "processing"}) = {}
       THEN /\ pc' = [pc EXCEPT ![w] = "vs_insert"]
            /\ loc' = [loc EXCEPT ![w] = [NoLoc EXCEPT !.amount = amount]]
       ELSE UNCHANGED <<pc, loc>>
    /\ UNCHANGED <<pvars, wvars, revenue>>

ViewSetInsert(w) ==
    /\ pc[w] = "vs_insert"
    /\ InsertWithdrawal(w, calculate_transfer_fee(loc[w].amount), "vs_fetch")

ViewSetFetch(w) ==
    /\ pc[w] = "vs_fetch"
    /\ FetchReservable(w, "vs_reserve", "idle")

ViewSetReserve(w) ==
    /\ pc[w] = "vs_reserve"
    /\ ReserveItem(w, "idle")

\* ------------------------------------------------ CancelWithdrawalView.post
\* A cancellation that deletes the pending request and leaves its revenue on hold.
CancelKeepsHold(w, wd) ==
    /\ pc[w] = "idle"
    /\ wd \in WithStatus({"pending"})
    /\ withdrawals' = [withdrawals EXCEPT ![wd].status = "deleted"]
    /\ UNCHANGED <<pvars, revenue, profile, pc, loc>>

\* Only a pending withdrawal is cancelled: its revenue is released and the row
\* deleted (kept here with status "deleted" so that the other rows keep their index).
CancelWithdrawal(w, wd) ==
    /\ pc[w] = "idle"
    /\ wd \in WithStatus({"pending", "approved", "processing", "completed", "rejected", "failed"})
    /\ IF withdrawals[wd].status = "pending"
       THEN /\ revenue' = [r \in Revenues |->
                    IF revenue[r].withdrawal = wd
                    THEN [revenue[r] EXCEPT !.withdrawal = 0, !.status = "available"]
                    ELSE revenue[r]]
            /\ withdrawals' = [withdrawals EXCEPT ![wd].status = "deleted"]
       ELSE UNCHANGED <<revenue, withdrawals>>
    /\ UNCHANGED <<pvars, profile, pc, loc>>

\* ------------------------------------------------- paystack_transfer_webhook
\* Paystack settles a transfer it accepted, and may reverse one it had completed.
TransferSettles(wd, result) ==
    /\ wd \in Withdrawals
    /\ withdrawals[wd].transfer = "sent"
    /\ result \in {"success", "failed"}
    /\ withdrawals' = [withdrawals EXCEPT ![wd].transfer = result]
    /\ UNCHANGED <<pvars, revenue, profile, pc, loc>>

TransferReverses(wd) ==
    /\ wd \in Withdrawals
    /\ withdrawals[wd].transfer = "success"
    /\ withdrawals' = [withdrawals EXCEPT ![wd].transfer = "reversed"]
    /\ UNCHANGED <<pvars, revenue, profile, pc, loc>>

\* transfer.success: the withdrawal is completed, its revenue marked withdrawn.
handle_transfer_success(w, wd) ==
    /\ pc[w] = "idle"
    /\ wd \in Withdrawals
    /\ withdrawals[wd].transfer \in {"success", "reversed"}
    /\ withdrawals[wd].status # "deleted"
    /\ withdrawals' = [withdrawals EXCEPT ![wd].status = "completed"]
    /\ revenue' = [r \in Revenues |->
            IF revenue[r].withdrawal = wd
            THEN [revenue[r] EXCEPT !.is_withdrawn = TRUE]
            ELSE revenue[r]]
    /\ UNCHANGED <<pvars, profile, pc, loc>>

\* A transfer.failed handler that fails the withdrawal and leaves its revenue on hold.
TransferFailedKeepsHold(w, wd) ==
    /\ pc[w] = "idle"
    /\ wd \in Withdrawals
    /\ withdrawals[wd].transfer = "failed"
    /\ withdrawals[wd].status # "deleted"
    /\ withdrawals' = [withdrawals EXCEPT ![wd].status = "failed",
                                          ![wd].rejection_reason = "Transfer failed"]
    /\ UNCHANGED <<pvars, revenue, profile, pc, loc>>

\* transfer.failed: the withdrawal is failed, its revenue released.
handle_transfer_failed(w, wd) ==
    /\ pc[w] = "idle"
    /\ wd \in Withdrawals
    /\ withdrawals[wd].transfer = "failed"
    /\ withdrawals[wd].status # "deleted"
    /\ withdrawals' = [withdrawals EXCEPT ![wd].status = "failed",
                                          ![wd].rejection_reason = "Transfer failed"]
    /\ revenue' = [r \in Revenues |->
            IF revenue[r].withdrawal = wd
            THEN [revenue[r] EXCEPT !.withdrawal = 0, !.status = "available"]
            ELSE revenue[r]]
    /\ UNCHANGED <<pvars, profile, pc, loc>>

\* transfer.reversed: the withdrawal is failed, its withdrawn revenue unmarked.
handle_transfer_reversed(w, wd) ==
    /\ pc[w] = "idle"
    /\ wd \in Withdrawals
    /\ withdrawals[wd].transfer = "reversed"
    /\ withdrawals[wd].status # "deleted"
    /\ withdrawals' = [withdrawals EXCEPT ![wd].status = "failed",
                                          ![wd].rejection_reason = "Transfer was reversed"]
    /\ revenue' = [r \in Revenues |->
            IF revenue[r].withdrawal = wd /\ revenue[r].is_withdrawn
            THEN [revenue[r] EXCEPT !.is_withdrawn = FALSE]
            ELSE revenue[r]]
    /\ UNCHANGED <<pvars, profile, pc, loc>>

\* ------------------------------------------------------------------- next
StepInitiate(w) ==
    \/ \E q \in 1..MaxQty : InitiatePaymentValidate(w, q)
    \/ \E ok \in BOOLEAN : InitiatePaymentTxn(w, ok)
    \/ \E q \in 1..MaxQty : InitiatePurchaseReserve(w, q)
    \/ \E ok \in BOOLEAN : InitiatePurchaseGateway(w, ok)

StepSettle(w) ==
    \/ \E p \in 1..MaxPurchases : WebhookPayment(w, p)
    \/ WebhookPurchase(w)
    \/ WebhookTickets(w)
    \/ WebhookTicketType(w)
    \/ \E p \in 1..MaxPurchases : VerifyPaymentRead(w, p)
    \/ \E res \in {"error", "not_success"} : VerifyPaymentFailed(w, res)
    \/ VerifyPaymentSuccess(w)

StepCancel(w) ==
    \/ \E p \in 1..MaxPurchases : CancelPurchaseRead(w, p)
    \/ CancelPurchaseWrite(w)

StepCheckIn(w) == \E t \in 1..MaxTickets : CheckInTicket(w, t)

Pays == \E p \in 1..MaxPurchases : CustomerPays(p)

\* Requests are handled one at a time, from arrival to response.
Next ==
    \/ StepInitiate(1)
    \/ StepSettle(1)
    \/ StepCancel(1)
    \/ StepCheckIn(1)
    \/ Pays

Spec == Init /\ [][Next]_vars

\* Initiation and settlement only, one request at a time, at every modelled price.
NextSettle ==
    \/ StepInitiate(1)
    \/ StepSettle(1)
    \/ Pays

SpecSettle == InitPrices /\ [][NextSettle]_vars

\* Initiation and settlement, one request at a time, where a webhook handler may
\* fail part-way.
NextSettleAbort ==
    \/ StepInitiate(1)
    \/ StepSettle(1)
    \/ Pays
    \/ WebhookAborts(1)

SpecSettleAbort == Init /\ [][NextSettleAbort]_vars

\* Purchase initiations only, one request at a time and at every modelled price,
\* where the rollback after a gateway failure may itself fail part-way.
NextInitiateAbort ==
    \/ StepInitiate(1)
    \/ InitiatePurchaseRollbackAborts(1)

SpecInitiateAbort == InitPrices /\ [][NextInitiateAbort]_vars

\* Purchases initiated one at a time; up to NumWorkers settlement handlers
\* (verify_payment calls, charge.success webhooks) are in flight at once.
NextSettleRace ==
    \/ StepInitiate(1)
    \/ \E w \in Workers : StepSettle(w)
    \/ Pays

SpecSettleRace == Init /\ [][NextSettleRace]_vars

\* One request at a time, with the clock running and unpaid purchases being read.
NextExpiry ==
    \/ StepInitiate(1)
    \/ StepSettle(1)
    \/ StepCancel(1)
    \/ Pays
    \/ Tick
    \/ \E p \in 1..MaxPurchases : PaymentStatusGet(p)

SpecExpiry == Init /\ [][NextExpiry]_vars

\* Up to NumWorkers purchase initiations are in flight and their steps interleave.
NextRace ==
    \/ \E w \in Workers : StepInitiate(w)
    \/ \E w \in Workers : StepCancel(w)

SpecRace == Init /\ [][NextRace]_vars

\* ---------------------------------------------------- withdrawal-side specs
\* The organizer's event has sold out through two webhook-settled purchases of one
\* ticket each, and the holding period of their revenue has just passed.
InitWithdrawAt(price) ==
    /\ now = HoldingDays * MinutesPerDay
    /\ check_in_policy = "single_entry"
    /\ ticket_type = [price |-> price, quantity |-> TTQuantity, tickets_sold |-> TTQuantity]
    /\ purchases = [p \in 1..TTQuantity |->
            [status |-> "completed", quantity |-> 1, subtotal |-> price,
             reservation_expires_at |-> ReservationMinutes]]
    /\ payments = [p \in 1..TTQuantity |-> "completed"]
    /\ tickets = [p \in 1..TTQuantity |->
            [purchase |-> p, status |-> "paid", is_checked_in |-> FALSE, checked_in_at |-> 0, check_ins |-> 0]]
    /\ revenue = [p \in 1..TTQuantity |->
            [RevenueRow(p, price) EXCEPT !.available_at = HoldingDays * MinutesPerDay]]
    /\ gateway = [p \in 1..TTQuantity |-> "paid"]
    /\ observed = {}
    /\ withdrawals = <<>>
    /\ profile = VerifiedProfile
    /\ pc = [w \in Workers |-> "idle"]
    /\ loc = [w \in Workers |-> NoLoc]

\* Tickets at 100.00: two entries of 95.00.
InitWithdraw == InitWithdrawAt(10000)

\* Tickets at 4,000.00: two entries of 3,800.00.
InitWithdrawLarge == InitWithdrawAt(400000)

StepCreateWithdrawal(w) ==
    \/ \E amount \in Amounts : CreateWithdrawalValidate(w, amount)
    \/ CreateWithdrawalInsert(w)
    \/ CreateWithdrawalFetch(w)
    \/ CreateWithdrawalReserve(w)
    \/ \E outcome \in {"no_recipient", "ok", "failed"} : InitiateTransfer(w, outcome)

StepViewSetCreate(w) ==
    \/ \E amount \in Amounts : ViewSetValidate(w, amount)
    \/ ViewSetInsert(w)
    \/ ViewSetFetch(w)
    \/ ViewSetReserve(w)

StepTransferWebhook(w) ==
    \/ \E wd \in 1..MaxWithdrawals : handle_transfer_success(w, wd)
    \/ \E wd \in 1..MaxWithdrawals : handle_transfer_failed(w, wd)
    \/ \E wd \in 1..MaxWithdrawals : handle_transfer_reversed(w, wd)

Paystack ==
    \/ \E wd \in 1..MaxWithdrawals, result \in {"success", "failed"} : TransferSettles(wd, result)
    \/ \E wd \in 1..MaxWithdrawals : TransferReverses(wd)

\* Withdrawal requests handled one at a time, from arrival to response.
NextWithdraw ==
    \/ RevenueSweep
    \/ StepCreateWithdrawal(1)
    \/ StepViewSetCreate(1)
    \/ \E wd \in 1..MaxWithdrawals : CancelWithdrawal(1, wd)
    \/ StepTransferWebhook(1)
    \/ Paystack

SpecWithdraw == InitWithdraw /\ [][NextWithdraw]_vars

\* The same with balances large enough for withdrawals around the fee threshold.
SpecWithdrawLarge == InitWithdrawLarge /\ [][NextWithdraw]_vars

\* Up to NumWorkers withdrawal creations are in flight and their steps interleave.
NextWithdrawRace ==
    \/ RevenueSweep
    \/ \E w \in Workers : StepCreateWithdrawal(w)
    \/ \E w \in Workers : StepViewSetCreate(w)

SpecWithdrawRace == InitWithdraw /\ [][NextWithdrawRace]_vars

\* ------------------------------------------------------------------ claims
Purchases == 1..Len(purchases)
Terminal == {"completed", "failed", "expired"}
SettlePcs == {"wh_purchase", "wh_tickets", "wh_ticket_type", "vp_gateway"}

\* C1: no oversell: in every reachable state the ticket type's tickets_sold is at
\* most its quantity (capacity).
C1_NoOversell == ticket_type.tickets_sold <= ticket_type.quantity

\* C2: last-ticket race: the reservation attempts that succeeded (their purchase
\* went on to pending, and was not released since) total at most the ticket type's
\* capacity, also when the attempts are in flight at once.
C2_SucceededWithinCapacity ==
    SumOver([p \in Purchases |-> purchases[p].quantity],
            {p \in Purchases : purchases[p].status \in {"pending", "completed"}})
        <= ticket_type.quantity

\* C3: ticket-payment correspondence: every ticket whose status is paid or used
\* belongs to a purchase whose status is completed.
C3_TicketPaymentCorrespondence ==
    \A t \in 1..Len(tickets) :
        tickets[t].status \in {"paid", "used"} =>
            /\ tickets[t].purchase \in Purchases
            /\ purchases[tickets[t].purchase].status = "completed"

\* C4: idempotent settlement: a settlement handler (charge.success webhook,
\* verify_payment) that found the payment already completed changes no ticket, no
\* revenue record and not tickets_sold in any of its steps.
C4_IdempotentSettlement ==
    [][\A w \in Workers :
          (pc[w] \in SettlePcs /\ loc[w].seen = "completed")
              => (tickets' = tickets /\ revenue' = revenue /\ ticket_type' = ticket_type)]_vars

\* C5: exactly one revenue record per completed purchase, none for a purchase that
\* is not completed.
C5_OneRevenuePerCompletedPurchase ==
    \A p \in Purchases :
        Cardinality(RevenueOf(p)) = (IF purchases[p].status = "completed" THEN 1 ELSE 0)

\* C6: revenue arithmetic: every stored revenue record of a purchase with subtotal
\* S has ticket_sales_amount = S, platform_fee = S x 0.05 rounded to the nearest
\* pesewa, organizer_earnings = S - platform_fee, hence fee + earnings = S; for
\* S = 100.00 the fee is 5.00 and the earnings 95.00.
C6_RevenueArithmetic ==
    \A r \in 1..Len(revenue) :
        LET S == purchases[revenue[r].purchase].subtotal
            fee == revenue[r].platform_fee
            diff == 100 * fee - CommissionPercent * S
        IN  /\ revenue[r].ticket_sales_amount = S
            /\ diff >= -50 /\ diff <= 50
            /\ revenue[r].organizer_earnings = S - fee
            /\ fee + revenue[r].organizer_earnings = S
            /\ S = 10000 => (fee = 500 /\ revenue[r].organizer_earnings = 9500)

\* C6 witness: a revenue record is stored for a subtotal whose 5% falls exactly
\* between two pesewas.
C6_Witness ==
    \E r \in 1..Len(revenue) : (CommissionPercent * revenue[r].ticket_sales_amount) % 100 = 50

\* C7: purchase terminal statuses: once a purchase is completed, failed or expired
\* its status never changes again.
C7_TerminalStatuses ==
    [][\A p \in Purchases :
          purchases[p].status \in Terminal => purchases'[p].status = purchases[p].status]_vars

\* C8: expiry releases inventory: a purchase that was observed while still reserved
\* or pending after its reservation_expires_at has been moved to expired, and none
\* of its tickets is left reserved or paid.
C8_ExpiryReleasesInventory ==
    \A p \in observed :
        /\ purchases[p].status = "expired"
        /\ \A t \in TicketsOf(p) : tickets[t].status \notin {"reserved", "paid"}

InFlight == WithStatus({"pending", "processing"})

\* Handlers that have inserted a withdrawal and are still reserving its revenue
Reserving == {loc[w].wd : w \in {x \in Workers : pc[x] \in {"cw_fetch", "cw_reserve",
                                                            "vs_fetch", "vs_reserve"}}}

LinkedEarnings(wd) == SumOver(Earnings, {r \in Revenues : revenue[r].withdrawal = wd})

\* C9: withdrawal reservation sum: for every withdrawal in pending or processing
\* whose creation has finished reserving, the organizer_earnings of the revenue
\* entries linked to it add up to at least its requested_amount.  (An entry's link
\* is one foreign key, so no entry names two withdrawals.)
C9_WithdrawalReservationSum ==
    \A wd \in InFlight \ Reserving :
        LinkedEarnings(wd) >= withdrawals[wd].requested_amount

\* C10: single in-flight withdrawal: the organizer has at most one withdrawal in
\* pending or processing, also when two creation requests are handled at once.
C10_SingleInFlightWithdrawal == Cardinality(InFlight) <= 1

\* ------------------------------------------- concurrent creations, settled
\* Up to NumWorkers withdrawal creations are in flight while Paystack settles the
\* transfers it accepted and its webhooks are delivered.
NextWithdrawSettleRace ==
    \/ RevenueSweep
    \/ \E w \in Workers : StepCreateWithdrawal(w)
    \/ \E w \in Workers : StepTransferWebhook(w)
    \/ Paystack

SpecWithdrawSettleRace == InitWithdraw /\ [][NextWithdrawSettleRace]_vars

Requested == [wd \in Withdrawals |-> withdrawals[wd].requested_amount]

C12_TransferFailedReconciliation ==
    [][\A wd \in Withdrawals :
          (/\ withdrawals[wd].status = "processing"
           /\ withdrawals[wd].transfer = "failed"
           /\ withdrawals'[wd] # withdrawals[wd])
              => /\ withdrawals'[wd].status = "failed"
                 /\ withdrawals'[wd].rejection_reason = "Transfer failed"
                 /\ \A r \in Revenues :
                        revenue[r].withdrawal = wd
                            => (revenue'[r].status = "available" /\ revenue'[r].withdrawal = 0)]_vars

\* C12 witness: a withdrawal was failed by transfer.failed and the revenue is all
\* available and unlinked again.
C12_Witness ==
    /\ \E wd \in Withdrawals : /\ withdrawals[wd].status = "failed"
                               /\ withdrawals[wd].rejection_reason = "Transfer failed"
    /\ \A r \in Revenues : revenue[r].status = "available" /\ revenue[r].withdrawal = 0

\* C13: transfer fee policy: every withdrawal created, on either creation path, has
\* transfer_fee 0.00 when its requested_amount is below 5,000.00 and 10.00 when it
\* is above, and final_amount = requested_amount - transfer_fee (6000.00 gives
\* 10.00 and 5990.00; 3000.00 gives 0.00 and 3000.00).
C13_TransferFeePolicy ==
    \A wd \in Withdrawals :
        LET req == withdrawals[wd].requested_amount
            fee == withdrawals[wd].transfer_fee
            final == withdrawals[wd].final_amount
        IN  /\ req < 500000 => fee = 0
            /\ req > 500000 => fee = 1000
            /\ final = req - fee
            /\ req = 600000 => (fee = 1000 /\ final = 599000)
            /\ req = 300000 => (fee = 0 /\ final = 300000)

\* C13 witness: a withdrawal of 6000.00 and one of 3000.00 have been created.
C13_Witness ==
    /\ \E wd \in Withdrawals : withdrawals[wd].requested_amount = 600000
    /\ \E wd \in Withdrawals : withdrawals[wd].requested_amount = 300000

Quiescent == \A w \in Workers : pc[w] = "idle"

\* The effects of a successful settlement of purchase p
PaymentCompleted(p) == payments[p] = "completed"
PurchaseCompleted(p) == purchases[p].status = "completed"
AllTicketsPaid(p) == TicketsOf(p) # {} /\ \A t \in TicketsOf(p) : tickets[t].status = "paid"
SomeTicketPaid(p) == \E t \in TicketsOf(p) : tickets[t].status = "paid"
RevenueRecorded(p) == RevenueOf(p) # {}
InventoryConfirmed(p) == ticket_type.tickets_sold >= purchases[p].quantity

\* C14: atomic settlement: whenever no handler is in the middle of its work, each
\* purchase has either all effects of a successful settlement (payment completed,
\* purchase completed, every ticket paid, revenue recorded, its quantity counted in
\* tickets_sold) or none of them, also after a handler failed part-way.
C14_AtomicSettlement ==
    Quiescent =>
        \A p \in Purchases :
            \/ /\ PaymentCompleted(p)
               /\ PurchaseCompleted(p)
               /\ AllTicketsPaid(p)
               /\ RevenueRecorded(p)
               /\ InventoryConfirmed(p)
            \/ /\ ~PaymentCompleted(p)
               /\ ~PurchaseCompleted(p)
               /\ ~SomeTicketPaid(p)
               /\ ~RevenueRecorded(p)

\* Purchases whose initiation reserved inventory and still hold it
HoldingInventory == {p \in Purchases : purchases[p].status = "pending" /\ TicketsOf(p) = {}}

\* C15: gateway-initialization rollback: once an initiation whose gateway call
\* failed has returned, its purchase (if it still exists) is failed with no
\* payment record and none of its tickets reserved, pending or paid, and
\* tickets_sold counts only the purchases that did reserve: the rollback leaves
\* nothing half-done.
C15_GatewayInitRollback ==
    Quiescent =>
        /\ \A p \in Purchases :
               purchases[p].status = "failed" =>
                   /\ payments[p] = "none"
                   /\ \A t \in TicketsOf(p) : tickets[t].status \notin {"reserved", "pending", "paid"}
        /\ ticket_type.tickets_sold
               = SumOver([p \in Purchases |-> purchases[p].quantity], HoldingInventory)

PaidTickets(p) == {t \in TicketsOf(p) : tickets[t].status = "paid"}

\* C16: settlement race: when the settlement handlers of a purchase have all
\* returned and the purchase is completed, it has exactly quantity paid tickets and
\* exactly one revenue record, however the handlers were interleaved.
C16_SettlementRace ==
    Quiescent =>
        \A p \in Purchases :
            purchases[p].status = "completed" =>
                /\ Cardinality(PaidTickets(p)) = purchases[p].quantity
                /\ Cardinality(RevenueOf(p)) = 1

\* What verify_payment's success branch leaves when it settles purchase p from the
\* current state: the payment and purchase completed, quantity new paid tickets, the
\* revenue record of Purchase.save and the one the view creates, tickets_sold as is.
VerifyOutcome(p) ==
    [payment |-> "completed",
     purchase |-> "completed",
     tickets |-> tickets \o [i \in 1..purchases[p].quantity |->
                    [purchase |-> p, status |-> "paid", is_checked_in |-> FALSE, checked_in_at |-> 0, check_ins |-> 0]],
     revenue_count |-> Len(revenue) + Len(PurchaseSaveRevenue(p, "completed")) + 1,
     tickets_sold |-> ticket_type.tickets_sold]

\* What _handle_successful_payment leaves when it settles purchase p from the
\* current state: the payment and purchase completed, the purchase's existing
\* tickets paid, the revenue record of Purchase.save, tickets_sold raised.
WebhookOutcome(p) ==
    [payment |-> "completed",
     purchase |-> "completed",
     tickets |-> [t \in 1..Len(tickets) |->
                    IF tickets[t].purchase = p
                    THEN [tickets[t] EXCEPT !.status = "paid"]
                    ELSE tickets[t]],
     revenue_count |-> Len(revenue) + Len(PurchaseSaveRevenue(p, "completed")),
     tickets_sold |-> ticket_type.tickets_sold + purchases[p].quantity]

\* A pending purchase that the buyer has paid and that no handler is working on
AwaitingSettlement(p) ==
    /\ Quiescent
    /\ purchases[p].status = "pending"
    /\ payments[p] = "pending"
    /\ gateway[p] = "paid"

\* C17: converging settlement paths: from any state with a paid, pending purchase,
\* settling it through verify_payment and settling it through the charge.success
\* webhook give the same payment and purchase status, the same tickets with the
\* same statuses, the same number of revenue records and the same tickets_sold.
C17_ConvergingSettlementPaths ==
    \A p \in Purchases : AwaitingSettlement(p) => VerifyOutcome(p) = WebhookOutcome(p)

AllowedStatusChanges ==
    {<<"pending", "processing">>, <<"processing", "completed">>,
     <<"processing", "failed">>, <<"pending", "rejected">>}

Methods == {"mobile_money", "bank_transfer"}

\* What Paystack answers to a failed GET /bank/resolve (resolve_result['message'])
FailureMessages == {"unknown_account", "timeout"}

\* serializer.save() inserts the profile as pending_verification, then the view
\* enters its loop with retry_count = 0.
CreatePaymentProfile(w, method) ==
    /\ pc[w] = "idle"
    /\ profile.status = "none"
    /\ profile' = [NoProfile EXCEPT !.status = "pending_verification", !.method = method]
    /\ pc' = [pc EXCEPT ![w] = "pp_verify"]
    /\ loc' = [loc EXCEPT ![w].retry_count = 0]
    /\ UNCHANGED <<pvars, revenue, withdrawals>>

\* One pass of the loop: verify_bank_account(payment_profile, is_retry = retry_count > 0).
\* A mobile-money profile is verified without a resolution. For a bank profile the
\* arguments of resolve_account_number are payment_profile.account_number and
\* payment_profile.bank_code, which PaymentProfile does not declare (the numbers
\* live in account_details): "raises" is that AttributeError, which ends the
\* request with the counter unsaved. The other outcomes are those of the
\* resolution where the attributes are there: "resolved", or a failure message.
VerifyBankAccount(w, outcome) ==
    /\ pc[w] = "pp_verify"
    /\ loc[w].retry_count < max_retries
    /\ outcome \in {"raises", "resolved"} \cup FailureMessages
    /\ LET attempts == (IF loc[w].retry_count > 0 THEN profile.verification_attempts ELSE 0) + 1
           tried == [profile EXCEPT !.verification_attempts = attempts,
                                    !.last_verification_attempt = now,
                                    !.resolve_calls = @ + 1]
       IN  IF profile.method # "bank_transfer"
           THEN /\ outcome = "resolved"
                /\ profile' = [profile EXCEPT !.status = "verified"]
                /\ Finish(w)
           ELSE IF outcome = "raises"
           THEN /\ UNCHANGED profile
                /\ Finish(w)
           ELSE IF outcome = "resolved"
           THEN /\ profile' = [tried EXCEPT !.status = "verified"]
                /\ Finish(w)
           ELSE IF attempts < MAX_ATTEMPTS
           THEN /\ profile' = [tried EXCEPT
                        !.status = "pending_verification",
                        !.failure_reason = [kind |-> "attempt", attempt |-> attempts,
                                            message |-> outcome]]
                /\ pc' = [pc EXCEPT ![w] = "pp_sleep"]
                /\ loc' = [loc EXCEPT ![w].retry_count = @ + 1]
           ELSE /\ profile' = [tried EXCEPT
                        !.status = "verification_failed",
                        !.failure_reason = [kind |-> "failed_after", attempt |-> MAX_ATTEMPTS,
                                            message |-> outcome]]
                /\ Finish(w)
    /\ UNCHANGED <<pvars, revenue, withdrawals>>

\* time.sleep(0.5), then the loop's test.
ProfileSleep(w) ==
    /\ pc[w] = "pp_sleep"
    /\ IF loc[w].retry_count < max_retries
       THEN /\ pc' = [pc EXCEPT ![w] = "pp_verify"]
            /\ UNCHANGED loc
       ELSE Finish(w)
    /\ UNCHANGED <<pvars, revenue, withdrawals, profile>>

StepCreateProfile(w) ==
    \/ \E method \in Methods : CreatePaymentProfile(w, method)
    \/ \E outcome \in {"raises", "resolved"} \cup FailureMessages : VerifyBankAccount(w, outcome)
    \/ ProfileSleep(w)

\* An organizer without a payment profile yet.
InitVerify ==
    /\ now = 0
    /\ check_in_policy = "single_entry"
    /\ ticket_type = [price |-> 10000, quantity |-> TTQuantity, tickets_sold |-> 0]
    /\ purchases = <<>>
    /\ payments = <<>>
    /\ tickets = <<>>
    /\ revenue = <<>>
    /\ gateway = <<>>
    /\ observed = {}
    /\ withdrawals = <<>>
    /\ profile = NoProfile
    /\ pc = [w \in Workers |-> "idle"]
    /\ loc = [w \in Workers |-> NoLoc]

\* One profile creation, from the POST to its response, while time passes.
NextVerify ==
    \/ StepCreateProfile(1)
    \/ Tick

SpecVerify == InitVerify /\ [][NextVerify]_vars

\* The creation request of the profile is still in its verification loop.
Verifying == \E w \in Workers : pc[w] \in {"pp_verify", "pp_sleep"}

\* C20: bounded bank verification: the verification run on profile creation makes
\* at most 5 resolutions, stops as soon as the profile is verified, and when the
\* request is over the profile is verified, or it is verification_failed with
\* verification_attempts = 5 and the last failure reason recorded: it is never
\* left pending_verification.
C20_BoundedBankVerification ==
    /\ profile.resolve_calls <= MAX_ATTEMPTS
    /\ profile.status = "verified" => ~Verifying
    /\ (profile.status # "none" /\ ~Verifying) =>
          \/ profile.status = "verified"
          \/ /\ profile.status = "verification_failed"
             /\ profile.verification_attempts = MAX_ATTEMPTS
             /\ profile.resolve_calls = MAX_ATTEMPTS
             /\ profile.failure_reason.kind = "failed_after"
             /\ profile.failure_reason.message \in FailureMessages

\* ------------------------------------------------------ check-in at the door
\* A sold-out event under either policy: two settled purchases of one ticket each.
InitCheckIn ==
    /\ now = 0
    /\ check_in_policy \in {"single_entry", "multiple_entry"}
    /\ ticket_type = [price |-> 10000, quantity |-> TTQuantity, tickets_sold |-> TTQuantity]
    /\ purchases = [p \in 1..TTQuantity |->
            [status |-> "completed", quantity |-> 1, subtotal |-> 10000,
             reservation_expires_at |-> ReservationMinutes]]
    /\ payments = [p \in 1..TTQuantity |-> "completed"]
    /\ tickets = [p \in 1..TTQuantity |->
            [purchase |-> p, status |-> "paid", is_checked_in |-> FALSE, checked_in_at |-> 0, check_ins |-> 0]]
    /\ revenue = [p \in 1..TTQuantity |-> RevenueRow(p, 10000)]
    /\ gateway = [p \in 1..TTQuantity |-> "paid"]
    /\ observed = {}
    /\ withdrawals = <<>>
    /\ profile = VerifiedProfile
    /\ pc = [w \in Workers |-> "idle"]
    /\ loc = [w \in Workers |-> NoLoc]

\* Up to NumWorkers scanners check tickets in at once, while time passes.
NextCheckIn ==
    \/ \E w \in Workers, t \in 1..MaxTickets : CheckInTicketGet(w, t)
    \/ \E w \in Workers : CheckInTicketSave(w)
    \/ Tick

SpecCheckIn == InitCheckIn /\ [][NextCheckIn]_vars

\* The same scanners, one request at a time.
NextCheckInSeq ==
    \/ StepCheckIn(1)
    \/ Tick

SpecCheckInSeq == InitCheckIn /\ [][NextCheckInSeq]_vars

\* C21: single-entry check-in: under the single_entry policy no step changes the
\* status, the check-in time or the count of successful check-ins of a ticket
\* that is already checked in.
C21_SingleEntryCheckIn ==
    [][check_in_policy = "single_entry" =>
          \A t \in 1..Len(tickets) :
              tickets[t].is_checked_in =>
                  /\ tickets'[t].status = tickets[t].status
                  /\ tickets'[t].checked_in_at = tickets[t].checked_in_at
                  /\ tickets'[t].check_ins = tickets[t].check_ins]_vars

\* Reservations, settlements and releases (failed gateway call, failed verification,
\* cancellation), one request at a time.
NextRelease ==
    \/ StepInitiate(1)
    \/ StepSettle(1)
    \/ StepCancel(1)
    \/ Pays

SpecRelease == Init /\ [][NextRelease]_vars

\* C22: the sold count is never negative, however often a release is repeated.
C22_SoldNeverNegative == ticket_type.tickets_sold >= 0

\* verify_payment has failed the only purchase there is, one of InitiatePurchaseView
\* whose reservation never raised the count: its release asked for 0 - quantity.
C22_Witness ==
    /\ Len(purchases) = 1
    /\ payments[1] = "failed"
    /\ purchases[1].status = "failed"
    /\ TicketsOf(1) # {}
    /\ ticket_type.tickets_sold = 0

\* C23: failed verification releases the reservation: a step in which verify_payment
\* answers that the payment failed leaves the payment and the purchase failed, the
\* sold count lower by exactly the purchase's quantity, and no ticket of the
\* purchase paid.
C23_FailedVerificationReleases ==
    [][\A w \in Workers :
          (pc[w] = "vp_gateway" /\ pc'[w] = "idle" /\ payments'[loc[w].p] = "failed") =>
              /\ purchases'[loc[w].p].status = "failed"
              /\ ticket_type'.tickets_sold
                    = ticket_type.tickets_sold - purchases[loc[w].p].quantity
              /\ \A t \in 1..Len(tickets') :
                    tickets'[t].purchase = loc[w].p => tickets'[t].status # "paid"]_vars

\* C24: transfer initiation outcome: when initiate_transfer has answered for a new
\* withdrawal, either the request is processing with the transfer code stored, or
\* it is failed and no revenue entry is on_hold for it any more.
C24_TransferInitiationOutcome ==
    [][\A w \in Workers :
          (pc[w] = "cw_transfer" /\ pc'[w] = "idle") =>
              \/ /\ withdrawals'[loc[w].wd].status = "processing"
                 /\ withdrawals'[loc[w].wd].transfer = "sent"
              \/ /\ withdrawals'[loc[w].wd].status = "failed"
                 /\ \A r \in 1..Len(revenue') :
                       ~(revenue'[r].status = "on_hold"
                            /\ revenue'[r].withdrawal = loc[w].wd)]_vars

C26_WithdrawalCancellation ==
    [][\A wd \in Withdrawals :
          (withdrawals[wd].status # "deleted" /\ withdrawals'[wd].status = "deleted") =>
              /\ withdrawals[wd].status = "pending"
              /\ \A other \in Withdrawals \ {wd} : withdrawals'[other] = withdrawals[other]
              /\ \A r \in Revenues :
                    IF revenue[r].withdrawal = wd
                    THEN /\ revenue'[r].status = "available"
                         /\ revenue'[r].withdrawal = 0
                    ELSE revenue'[r] = revenue[r]]_vars

\* A request that had revenue on hold has been cancelled.
C26_Witness ==
    \E wd \in Withdrawals :
        /\ withdrawals[wd].status = "deleted"
        /\ Revenues # {}
        /\ \A r \in Revenues : revenue[r].withdrawal # wd /\ revenue[r].status = "available"

\* ------------------------------------------------------------ holding period
HoldingEnd == HoldingDays * MinutesPerDay

\* timezone.now() moves on, around the end of the first entry's holding period.
HoldingTick ==
    /\ now + TickMinutes <= HoldingEnd + TickMinutes
    /\ now' = now + TickMinutes
    /\ UNCHANGED <<check_in_policy, ticket_type, purchases, payments, tickets, revenue,
                   gateway, observed, pc, loc>>
    /\ UNCHANGED wvars

\* One ticket of two was bought and settled at time 0; its revenue entry is one
\* clock step from the end of its holding period, and the other ticket is on sale.
InitHolding ==
    /\ now = HoldingEnd - TickMinutes
    /\ check_in_policy = "single_entry"
    /\ ticket_type = [price |-> 10000, quantity |-> TTQuantity, tickets_sold |-> 1]
    /\ purchases = <<[status |-> "completed", quantity |-> 1, subtotal |-> 10000,
                      reservation_expires_at |-> ReservationMinutes]>>
    /\ payments = <<"completed">>
    /\ tickets = <<[purchase |-> 1, status |-> "paid", is_checked_in |-> FALSE, checked_in_at |-> 0, check_ins |-> 0]>>
    /\ revenue = <<[RevenueRow(1, 10000) EXCEPT !.available_at = HoldingEnd]>>
    /\ gateway = <<"paid">>
    /\ observed = {}
    /\ withdrawals = <<>>
    /\ profile = VerifiedProfile
    /\ pc = [w \in Workers |-> "idle"]
    /\ loc = [w \in Workers |-> NoLoc]

\* Sales settled through verify_payment (which creates revenue both in Purchase.save
\* and by itself), the dashboard's sweep, withdrawals and their releases, one request
\* at a time, while the clock passes the end of the holding period.
NextHolding ==
    \/ \E q \in 1..MaxQty : InitiatePaymentValidate(1, q)
    \/ \E ok \in BOOLEAN : InitiatePaymentTxn(1, ok)
    \/ \E p \in 1..MaxPurchases : VerifyPaymentRead(1, p)
    \/ \E res \in {"error", "not_success"} : VerifyPaymentFailed(1, res)
    \/ VerifyPaymentSuccess(1)
    \/ Pays
    \/ RevenueSweep
    \/ StepCreateWithdrawal(1)
    \/ \E wd \in 1..MaxWithdrawals : CancelWithdrawal(1, wd)
    \/ StepTransferWebhook(1)
    \/ Paystack
    \/ HoldingTick

SpecHolding == InitHolding /\ [][NextHolding]_vars

\* Entries counted in the available balance or reserved by a withdrawal
Withdrawable(rows) ==
    {r \in 1..Len(rows) : \/ rows[r].status \in {"available", "on_hold", "withdrawn"}
                          \/ rows[r].is_withdrawn
                          \/ rows[r].withdrawal # 0}

\* C27: holding period: every revenue entry is created pending with available_at
\* 7 days after its creation; no entry is available, reserved or withdrawn before
\* its available_at; and a sweep moves every pending entry whose available_at has
\* come to available.
C27_HoldingPeriod ==
    [][/\ \A r \in (Len(revenue) + 1)..Len(revenue') :
             /\ revenue'[r].status = "pending"
             /\ revenue'[r].available_at = now + HoldingDays * MinutesPerDay
       /\ \A r \in Withdrawable(revenue') : revenue'[r].available_at <= now'
       /\ (\E r \in Revenues : revenue[r].status = "pending" /\ revenue'[r].status = "available")
             => \A r \in Revenues :
                   (revenue[r].status = "pending" /\ revenue[r].available_at <= now)
                       => revenue'[r].status = "available"]_vars

\* The first entry has matured and is reserved by a withdrawal while a later one
\* is still in its holding period.
C27_Witness ==
    /\ \E r \in Revenues : revenue[r].status = "on_hold" /\ revenue[r].available_at <= now
    /\ \E r \in Revenues : revenue[r].status = "pending" /\ revenue[r].available_at > now

\* Purchases that hold inventory, and the tickets they hold
Holding == {p \in Purchases : purchases[p].status \in {"reserved", "pending", "completed"}}
Quantities == [p \in Purchases |-> purchases[p].quantity]

\* C28: inventory accounting: with no request in flight, tickets_sold is the sum
\* of the quantities of the purchases that are reserved, pending or completed.
C28_InventoryAccounting ==
    Quiescent => ticket_type.tickets_sold = SumOver(Quantities, Holding)

\* --------------------------------------------- webhook against cancellation
StepWebhook(w) ==
    \/ \E p \in 1..MaxPurchases : WebhookPayment(w, p)
    \/ WebhookPurchase(w)
    \/ WebhookTickets(w)
    \/ WebhookTicketType(w)

\* Purchases initiated one at a time; charge.success handlers and cancellations of
\* up to NumWorkers requests are in flight at once.
NextCancelRace ==
    \/ StepInitiate(1)
    \/ \E w \in Workers : StepWebhook(w)
    \/ \E w \in Workers : StepCancel(w)
    \/ Pays

SpecCancelRace == Init /\ [][NextCancelRace]_vars

\* The same, one request at a time.
NextCancelSeq ==
    \/ StepInitiate(1)
    \/ StepWebhook(1)
    \/ StepCancel(1)
    \/ Pays

SpecCancelSeq == Init /\ [][NextCancelSeq]_vars

\* C29: payment/purchase coherence: with no request in flight, a payment is
\* completed exactly when its purchase is, and no ticket of a purchase whose
\* payment is completed is expired.
C29_PaymentPurchaseCoherence ==
    Quiescent =>
        \A p \in Purchases :
            /\ (payments[p] = "completed") <=> (purchases[p].status = "completed")
            /\ payments[p] = "completed" =>
                  \A t \in TicketsOf(p) : tickets[t].status # "expired"

\* ------------------------------------------------ RetryVerificationView.post
\* A verified profile and one pending verification are refused, so is a profile
\* with 3 attempts or more whose last attempt is less than an hour old; otherwise
\* the profile is saved as pending_verification with one more attempt counted and
\* the reason blanked.  No verification is started.
RetryVerification(w) ==
    /\ pc[w] = "idle"
    /\ profile.status # "none"
    /\ IF \/ profile.status \in {"verified", "pending_verification"}
          \/ /\ profile.last_verification_attempt # -1
             /\ now - profile.last_verification_attempt < RetryWindowMinutes
             /\ profile.verification_attempts >= RetryLimit
       THEN UNCHANGED profile
       ELSE profile' = [profile EXCEPT !.status = "pending_verification",
                                       !.last_verification_attempt = now,
                                       !.verification_attempts = @ + 1,
                                       !.failure_reason = NoReason]
    /\ UNCHANGED <<pvars, revenue, withdrawals, pc, loc>>

\* An hour goes by.
HourPasses ==
    /\ now + RetryWindowMinutes <= MaxHours * RetryWindowMinutes + MaxNow
    /\ now' = now + RetryWindowMinutes
    /\ UNCHANGED <<check_in_policy, ticket_type, purchases, payments, tickets, revenue,
                   gateway, observed, pc, loc>>
    /\ UNCHANGED wvars

\* A profile is created and verified, and its owner asks for retries, while time
\* passes.  Every request that has started runs to its end, and the clock runs.
NextRetry ==
    \/ StepCreateProfile(1)
    \/ RetryVerification(1)
    \/ Tick
    \/ HourPasses

SpecRetry == InitVerify /\ [][NextRetry]_vars /\ WF_vars(NextRetry)

\* C30: verification retry makes progress: a profile that is pending_verification
\* is eventually verified or verification_failed.
C30_VerificationProgress ==
    (profile.status = "pending_verification")
        ~> (profile.status \in {"verified", "verification_failed"})
====
